---- MODULE Spec2Model ----
(***************************************************************************)
(* A model of labthings_sangaboard.SangaboardThing: one stage controller   *)
(* wrapping a serial motor controller, called concurrently by several      *)
(* request threads.  Strings are modelled as tuples of characters so that  *)
(* iterating and unpacking a string is computed as Python computes it.     *)
(***************************************************************************)
EXTENDS Integers, Sequences, FiniteSets, TLC

VARIABLES
    hostpc,           \* position of the hosting framework in the Thing's lifecycle
    conn,             \* self._sangaboard: "none", "open" or "closed"
    sangaboard_lock,  \* self._sangaboard_lock: [owner, count] of the RLock
    position,         \* self.position, the cached mapping axis -> coordinate
    moving,           \* self.moving
    hw,               \* the coordinates the board itself is at (sb.position)
    pc,               \* each calling thread's position in its action
    op,               \* the action each calling thread is executing
    kwargs,           \* the keyword arguments of that action
    relKwargs,        \* the keyword arguments of the move_relative frame
    driverArg,        \* the list handed to sb.move_rel
    result,           \* how the action ended
    writes,           \* raw _ser.write calls issued by the thread's action
    returned          \* the value a property read gave the thread

vars == <<hostpc, conn, sangaboard_lock, position, moving, hw, pc, op, kwargs,
          relKwargs, driverArg, result, writes, returned>>

----------------------------------------------------------------------------
(* Bounds of the model *)

Callers == {"c1", "c2"}
Host == "host"
MaxCoord == 1
Coords == 0..MaxCoord
Deltas == {1}
None == "none"

----------------------------------------------------------------------------
(* Data *)

axis_names == << <<"x">>, <<"y">>, <<"z">> >>

AxisKeys == {axis_names[i] : i \in 1..Len(axis_names)}

\* A keyword whose name is two characters long: the only shape of key that
\* unpacks into (k, v) in move_absolute's comprehension.
ExtraKeys == { <<"x", "y">> }

EmptyDict == [k \in {} |-> 0]

\* no property has been read
NoValue == [prop |-> None]

NoVector == [i \in 1..Len(axis_names) |-> 0]

DeltaKwargs ==
    {[k \in S |-> v] : S \in SUBSET AxisKeys, v \in Deltas}
        \cup {[k \in ExtraKeys |-> v] : v \in Deltas}

Targets == {0, MaxCoord}

TargetKwargs ==
    {[k \in S |-> v] : S \in SUBSET AxisKeys, v \in Targets}
        \cup {[k \in ExtraKeys |-> v] : v \in Targets}

Min(a, b) == IF a <= b THEN a ELSE b

\* dict.get(k, d)
Get(d, k, default) == IF k \in DOMAIN d THEN d[k] ELSE default

\* [kwargs.get(k, 0) for k in self.axis_names]
MoveVector_DefaultOne(kw) == [i \in 1..Len(axis_names) |-> Get(kw, axis_names[i], 1)]

MoveVector(kw) == [i \in 1..Len(axis_names) |-> Get(kw, axis_names[i], 0)]

\* {k: v for (k, v) in zip(self.axis_names, sb.position)}
ZipPosition_Reversed(names, pos) ==
    LET n == Min(Len(names), Len(pos))
    IN  [k \in {names[i] : i \in 1..n} |->
            pos[n + 1 - (CHOOSE i \in 1..n : names[i] = k)]]

ZipPosition(names, pos) ==
    LET n == Min(Len(names), Len(pos))
    IN  [k \in {names[i] : i \in 1..n} |-> pos[CHOOSE i \in 1..n : names[i] = k]]

\* One item of `for k, v in kwargs`: the dict is iterated by key, and the key,
\* a string, is unpacked into two names.  A key that is not two characters long
\* raises ValueError; otherwise k and v are its characters, self.position[k]
\* raises KeyError for an unknown k, and `v - int` raises TypeError for the
\* character v.
ItemError(key, pos) ==
    IF Len(key) # 2 THEN "ValueError"
    ELSE IF <<key[1]>> \notin DOMAIN pos THEN "KeyError"
    ELSE "TypeError"

\* displacement = {k: v - self.position[k] for k, v in kwargs}: the outcomes
\* the comprehension can have (the first key iterated decides the error).
Displacement(kw, pos) ==
    IF DOMAIN kw = {}
    THEN {[err |-> None, val |-> EmptyDict]}
    ELSE {[err |-> ItemError(key, pos), val |-> EmptyDict] : key \in DOMAIN kw}

----------------------------------------------------------------------------
(* threading.RLock *)

FreeLock == [owner |-> None, count |-> 0]

CanAcquire_Always(l, t) == TRUE

CanAcquire(l, t) == l.count = 0 \/ l.owner = t

Acquire_Noop(l, t) == l

Acquire(l, t) == [owner |-> t, count |-> l.count + 1]

Release_NonReentrant(l, n) == FreeLock

\* leaving n nested `with` blocks normally
Release(l, n) ==
    IF l.count - n <= 0 THEN FreeLock
    ELSE [owner |-> l.owner, count |-> l.count - n]

Unwind_Leak(l, n) == l

\* an exception propagating out of n nested `with` blocks
Unwind(l, n) == Release(l, n)

----------------------------------------------------------------------------
(* The board, as the driver presents it *)

InRange(p) == \A i \in 1..Len(p) : p[i] \in Coords

Moved(p, v) == [i \in 1..Len(p) |-> p[i] + v[i]]

\* the `with` blocks a move_relative frame is nested in
Frames(t) == IF op[t] = "move_absolute" THEN 2 ELSE 1

----------------------------------------------------------------------------
Init ==
    /\ hostpc = "constructed"
    /\ conn = None
    /\ sangaboard_lock = FreeLock
    /\ position = EmptyDict
    /\ moving = FALSE
    /\ hw \in [1..Len(axis_names) -> Coords]
    /\ pc = [t \in Callers |-> "idle"]
    /\ op = [t \in Callers |-> None]
    /\ kwargs = [t \in Callers |-> EmptyDict]
    /\ relKwargs = [t \in Callers |-> EmptyDict]
    /\ driverArg = [t \in Callers |-> NoVector]
    /\ result = [t \in Callers |-> None]
    /\ writes = [t \in Callers |-> 0]
    /\ returned = [t \in Callers |-> NoValue]

----------------------------------------------------------------------------
(* Lifecycle: __enter__ and __exit__ *)

Enter_NoUpdate ==
    /\ hostpc = "constructed"
    /\ hostpc' = "running"
    /\ conn' = "open"
    /\ sangaboard_lock' = FreeLock
    /\ UNCHANGED <<returned, position, moving, hw, pc, op, kwargs, relKwargs, driverArg,
                   result, writes>>

\* Sangaboard(port), RLock(), update_position()
Enter ==
    /\ hostpc = "constructed"
    /\ hostpc' = "running"
    /\ conn' = "open"
    /\ sangaboard_lock' = Release(Acquire(FreeLock, Host), 1)
    /\ position' = ZipPosition(axis_names, hw)
    /\ UNCHANGED <<returned, moving, hw, pc, op, kwargs, relKwargs, driverArg, result, writes>>

EnterFail ==
    /\ hostpc = "constructed"
    /\ hostpc' = "failed"
    /\ conn' \in {None, "open"}
    /\ UNCHANGED <<returned, sangaboard_lock, position, moving, hw, pc, op, kwargs,
                   relKwargs, driverArg, result, writes>>

ExitLock_NoWait ==
    /\ hostpc = "running"
    /\ hostpc' = "ex_close"
    /\ UNCHANGED <<returned, conn, sangaboard_lock, position, moving, hw, pc, op, kwargs,
                   relKwargs, driverArg, result, writes>>

\* with self.sangaboard() as sb:  (blocks until the RLock can be taken)
ExitLock ==
    /\ hostpc = "running"
    /\ CanAcquire(sangaboard_lock, Host)
    /\ sangaboard_lock' = Acquire(sangaboard_lock, Host)
    /\ hostpc' = "ex_close"
    /\ UNCHANGED <<returned, conn, position, moving, hw, pc, op, kwargs, relKwargs,
                   driverArg, result, writes>>

ExitClose ==
    /\ hostpc = "ex_close"
    /\ conn' = "closed"
    /\ sangaboard_lock' = Release(sangaboard_lock, 1)
    /\ hostpc' = "stopped"
    /\ UNCHANGED <<returned, position, moving, hw, pc, op, kwargs, relKwargs, driverArg,
                   result, writes>>

Serving == hostpc \in {"running", "ex_close", "stopped"}

----------------------------------------------------------------------------
(* A request thread invokes an action.  The keyword arguments of a move are
   drawn where the action first reads them. *)

CallMoveRelative(t) ==
    /\ Serving
    /\ pc[t] = "idle"
    /\ op' = [op EXCEPT ![t] = "move_relative"]
    /\ pc' = [pc EXCEPT ![t] = "mr_lock"]
    /\ UNCHANGED <<returned, hostpc, conn, sangaboard_lock, position, moving, hw, kwargs,
                   relKwargs, driverArg, result, writes>>

CallMoveAbsolute(t) ==
    /\ Serving
    /\ pc[t] = "idle"
    /\ op' = [op EXCEPT ![t] = "move_absolute"]
    /\ pc' = [pc EXCEPT ![t] = "ma_lock"]
    /\ UNCHANGED <<returned, hostpc, conn, sangaboard_lock, position, moving, hw, kwargs,
                   relKwargs, driverArg, result, writes>>

CallAbortMove(t) ==
    /\ Serving
    /\ pc[t] = "idle"
    /\ op' = [op EXCEPT ![t] = "abort_move"]
    /\ pc' = [pc EXCEPT ![t] = "ab_check"]
    /\ UNCHANGED <<returned, hostpc, conn, sangaboard_lock, position, moving, hw, kwargs,
                   relKwargs, driverArg, result, writes>>

\* the action ends with outcome r: its frames and their locals are gone
EndCall(t, r) ==
    /\ pc' = [pc EXCEPT ![t] = "done"]
    /\ result' = [result EXCEPT ![t] = r]
    /\ kwargs' = [kwargs EXCEPT ![t] = EmptyDict]
    /\ relKwargs' = [relKwargs EXCEPT ![t] = EmptyDict]
    /\ driverArg' = [driverArg EXCEPT ![t] = NoVector]

\* the outcome has been delivered; the thread is free for the next request
Return(t) ==
    /\ pc[t] = "done"
    /\ pc' = [pc EXCEPT ![t] = "idle"]
    /\ op' = [op EXCEPT ![t] = None]
    /\ result' = [result EXCEPT ![t] = None]
    /\ writes' = [writes EXCEPT ![t] = 0]
    /\ returned' = [returned EXCEPT ![t] = NoValue]
    /\ UNCHANGED <<hostpc, conn, sangaboard_lock, position, moving, hw, kwargs,
                   relKwargs, driverArg>>

----------------------------------------------------------------------------
(* move_relative *)

\* with self.sangaboard() as sb:  (blocks until the RLock can be taken)
MoveRelLock(t) ==
    /\ pc[t] = "mr_lock"
    /\ CanAcquire(sangaboard_lock, t)
    /\ sangaboard_lock' = Acquire(sangaboard_lock, t)
    /\ pc' = [pc EXCEPT ![t] = "mr_set"]
    /\ UNCHANGED <<returned, hostpc, conn, position, moving, hw, op, kwargs, relKwargs,
                   driverArg, result, writes>>

MoveRelSetMoving_Skip(t) ==
    /\ pc[t] = "mr_set"
    /\ pc' = [pc EXCEPT ![t] = "mr_call"]
    /\ UNCHANGED <<returned, hostpc, conn, sangaboard_lock, position, moving, hw, op,
                   kwargs, relKwargs, driverArg, result, writes>>

\* self.moving = True
MoveRelSetMoving(t) ==
    /\ pc[t] = "mr_set"
    /\ moving' = TRUE
    /\ pc' = [pc EXCEPT ![t] = "mr_call"]
    /\ UNCHANGED <<returned, hostpc, conn, sangaboard_lock, position, hw, op, kwargs,
                   relKwargs, driverArg, result, writes>>

\* sb.move_rel([kwargs.get(k, 0) for k in self.axis_names]) is entered
MoveRelCall(t) ==
    /\ pc[t] = "mr_call"
    /\ \E kw \in (IF op[t] = "move_relative" THEN DeltaKwargs ELSE {relKwargs[t]}) :
          /\ relKwargs' = [relKwargs EXCEPT ![t] = kw]
          /\ kwargs' = IF op[t] = "move_relative"
                        THEN [kwargs EXCEPT ![t] = kw] ELSE kwargs
          /\ driverArg' = [driverArg EXCEPT ![t] = MoveVector(kw)]
    /\ pc' = [pc EXCEPT ![t] = "mr_driver"]
    /\ UNCHANGED <<returned, hostpc, conn, sangaboard_lock, position, moving, hw, op,
                   result, writes>>

\* sb.move_rel returns: the board has moved by the commanded displacement
DriverMoveOk(t) ==
    /\ pc[t] = "mr_driver"
    /\ conn = "open"
    /\ InRange(Moved(hw, driverArg[t]))
    /\ hw' = Moved(hw, driverArg[t])
    /\ pc' = [pc EXCEPT ![t] = "mr_clear"]
    /\ UNCHANGED <<returned, hostpc, conn, sangaboard_lock, position, moving, op, kwargs,
                   relKwargs, driverArg, result, writes>>

DriverMoveFail_Resync(t) ==
    /\ pc[t] = "mr_driver"
    /\ \/ hw' = hw
       \/ /\ conn = "open"
          /\ InRange(Moved(hw, driverArg[t]))
          /\ hw' = Moved(hw, driverArg[t])
    /\ position' = ZipPosition(axis_names, hw')
    /\ sangaboard_lock' = Unwind(sangaboard_lock, Frames(t))
    /\ EndCall(t, "MotionError")
    /\ UNCHANGED <<returned, hostpc, conn, moving, op, writes>>

\* sb.move_rel raises, with the board moved or not: the exception leaves the
\* `with` blocks, which release the lock; nothing else of move_relative runs
DriverMoveFail(t) ==
    /\ pc[t] = "mr_driver"
    /\ \/ hw' = hw
       \/ /\ conn = "open"
          /\ InRange(Moved(hw, driverArg[t]))
          /\ hw' = Moved(hw, driverArg[t])
    /\ sangaboard_lock' = Unwind(sangaboard_lock, Frames(t))
    /\ EndCall(t, "MotionError")
    /\ UNCHANGED <<returned, hostpc, conn, position, moving, op, writes>>

\* self.moving = False, then update_position() takes the lock again and
\* queries sb.position
MoveRelClear(t) ==
    /\ pc[t] = "mr_clear"
    /\ moving' = FALSE
    /\ sangaboard_lock' = Acquire(sangaboard_lock, t)
    /\ pc' = [pc EXCEPT ![t] = "mr_read"]
    /\ UNCHANGED <<returned, hostpc, conn, position, hw, op, kwargs, relKwargs,
                   driverArg, result, writes>>

\* update_position(): sb.position answers, self.position is replaced
MoveRelReadOk(t) ==
    /\ pc[t] = "mr_read"
    /\ conn = "open"
    /\ position' = ZipPosition(axis_names, hw)
    /\ sangaboard_lock' = Release(sangaboard_lock, 1)
    /\ pc' = [pc EXCEPT ![t] = "mr_unlock"]
    /\ UNCHANGED <<returned, hostpc, conn, moving, hw, op, kwargs, relKwargs, driverArg,
                   result, writes>>

\* update_position(): sb.position raises
MoveRelReadFail(t) ==
    /\ pc[t] = "mr_read"
    /\ sangaboard_lock' = Unwind(sangaboard_lock, Frames(t) + 1)
    /\ EndCall(t, "ReadError")
    /\ UNCHANGED <<returned, hostpc, conn, position, moving, hw, op, writes>>

\* the end of the `with` block of move_relative and, for a move_relative
\* called by move_absolute, of the `with` block of move_absolute after it
MoveRelUnlock(t) ==
    /\ pc[t] = "mr_unlock"
    /\ sangaboard_lock' = Release(sangaboard_lock, Frames(t))
    /\ EndCall(t, "ok")
    /\ UNCHANGED <<returned, hostpc, conn, position, moving, hw, op, writes>>

----------------------------------------------------------------------------
(* move_absolute *)

\* with self.sangaboard(): (blocks until the RLock can be taken), then
\* update_position() takes the lock again and queries sb.position
MoveAbsLock(t) ==
    /\ pc[t] = "ma_lock"
    /\ CanAcquire(sangaboard_lock, t)
    /\ sangaboard_lock' = Acquire(Acquire(sangaboard_lock, t), t)
    /\ pc' = [pc EXCEPT ![t] = "ma_read"]
    /\ UNCHANGED <<returned, hostpc, conn, position, moving, hw, op, kwargs, relKwargs,
                   driverArg, result, writes>>

\* update_position(): sb.position answers, self.position is replaced
MoveAbsReadOk(t) ==
    /\ pc[t] = "ma_read"
    /\ conn = "open"
    /\ position' = ZipPosition(axis_names, hw)
    /\ sangaboard_lock' = Release(sangaboard_lock, 1)
    /\ \E kw \in TargetKwargs : kwargs' = [kwargs EXCEPT ![t] = kw]
    /\ pc' = [pc EXCEPT ![t] = "ma_disp"]
    /\ UNCHANGED <<returned, hostpc, conn, moving, hw, op, relKwargs, driverArg, result,
                   writes>>

\* update_position(): sb.position raises
MoveAbsReadFail(t) ==
    /\ pc[t] = "ma_read"
    /\ sangaboard_lock' = Unwind(sangaboard_lock, 2)
    /\ EndCall(t, "ReadError")
    /\ UNCHANGED <<returned, hostpc, conn, position, moving, hw, op, writes>>

\* displacement = {k: v - self.position[k] for k, v in kwargs} is computed
\* and self.move_relative(**displacement) is called
MoveAbsDisplacement(t) ==
    /\ pc[t] = "ma_disp"
    /\ \E d \in Displacement(kwargs[t], position) :
          /\ d.err = None
          /\ relKwargs' = [relKwargs EXCEPT ![t] = d.val]
    /\ pc' = [pc EXCEPT ![t] = "mr_lock"]
    /\ UNCHANGED <<returned, hostpc, conn, sangaboard_lock, position, moving, hw, op,
                   kwargs, driverArg, result, writes>>

\* the comprehension raises; the exception leaves the `with` block
MoveAbsDisplacementFail(t) ==
    /\ pc[t] = "ma_disp"
    /\ \E d \in Displacement(kwargs[t], position) :
          /\ d.err # None
          /\ EndCall(t, d.err)
    /\ sangaboard_lock' = Unwind(sangaboard_lock, 1)
    /\ UNCHANGED <<returned, hostpc, conn, position, moving, hw, op, writes>>

----------------------------------------------------------------------------
(* abort_move *)

AbortCheck_Always(t) ==
    /\ pc[t] = "ab_check"
    /\ pc' = [pc EXCEPT ![t] = "ab_write"]
    /\ UNCHANGED <<returned, hostpc, conn, sangaboard_lock, position, moving, hw, op,
                   kwargs, relKwargs, driverArg, result, writes>>

\* if self.moving: ... else: raise HTTPException(status_code=409, ...)
AbortCheck(t) ==
    /\ pc[t] = "ab_check"
    /\ IF moving
       THEN /\ pc' = [pc EXCEPT ![t] = "ab_write"]
            /\ UNCHANGED <<result, kwargs, relKwargs, driverArg>>
       ELSE EndCall(t, "Conflict409")
    /\ UNCHANGED <<returned, hostpc, conn, sangaboard_lock, position, moving, hw, op,
                   writes>>

AbortWrite_Locked(t) ==
    /\ pc[t] = "ab_write"
    /\ CanAcquire(sangaboard_lock, t)
    /\ writes' = [writes EXCEPT ![t] = @ + 1]
    /\ EndCall(t, IF conn = "open" THEN "ok" ELSE "WriteError")
    /\ UNCHANGED <<returned, hostpc, conn, sangaboard_lock, position, moving, hw, op>>

\* self._sangaboard._ser.write(("stop" + tc).encode()), without the lock; a
\* closed port refuses the write
AbortWrite(t) ==
    /\ pc[t] = "ab_write"
    /\ writes' = [writes EXCEPT ![t] = @ + 1]
    /\ EndCall(t, IF conn = "open" THEN "ok" ELSE "WriteError")
    /\ UNCHANGED <<returned, hostpc, conn, sangaboard_lock, position, moving, hw, op>>

----------------------------------------------------------------------------
(* Property reads: axis_names, position, moving, and thing_state *)

\* the property getter hands back value v; nothing is locked or written
ReadProperty(t, name, v) ==
    /\ Serving
    /\ pc[t] = "idle"
    /\ op' = [op EXCEPT ![t] = name]
    /\ returned' = [returned EXCEPT ![t] = [prop |-> name, value |-> v]]
    /\ pc' = [pc EXCEPT ![t] = "done"]
    /\ result' = [result EXCEPT ![t] = "ok"]
    /\ UNCHANGED <<hostpc, conn, sangaboard_lock, position, moving, hw, kwargs,
                   relKwargs, driverArg, writes>>

ReadAxisNames(t) == ReadProperty(t, "axis_names", axis_names)

ReadPosition_Locked(t) ==
    /\ CanAcquire(sangaboard_lock, t)
    /\ ReadProperty(t, "position", position)

ReadPosition(t) == ReadProperty(t, "position", position)

ReadMoving(t) == ReadProperty(t, "moving", moving)

\* {"position": self.position}
ReadThingState(t) == ReadProperty(t, "thing_state", [position |-> position])

----------------------------------------------------------------------------
Next ==
    \/ Enter
    \/ EnterFail
    \/ ExitLock
    \/ ExitClose
    \/ \E t \in Callers : CallMoveRelative(t)
    \/ \E t \in Callers : CallMoveAbsolute(t)
    \/ \E t \in Callers : CallAbortMove(t)
    \/ \E t \in Callers : Return(t)
    \/ \E t \in Callers : MoveRelLock(t)
    \/ \E t \in Callers : MoveRelSetMoving(t)
    \/ \E t \in Callers : MoveRelCall(t)
    \/ \E t \in Callers : DriverMoveOk(t)
    \/ \E t \in Callers : DriverMoveFail(t)
    \/ \E t \in Callers : MoveRelClear(t)
    \/ \E t \in Callers : MoveRelReadOk(t)
    \/ \E t \in Callers : MoveRelReadFail(t)
    \/ \E t \in Callers : MoveRelUnlock(t)
    \/ \E t \in Callers : MoveAbsLock(t)
    \/ \E t \in Callers : MoveAbsReadOk(t)
    \/ \E t \in Callers : MoveAbsReadFail(t)
    \/ \E t \in Callers : MoveAbsDisplacement(t)
    \/ \E t \in Callers : MoveAbsDisplacementFail(t)
    \/ \E t \in Callers : AbortCheck(t)
    \/ \E t \in Callers : AbortWrite(t)
    \/ \E t \in Callers : ReadAxisNames(t)
    \/ \E t \in Callers : ReadPosition(t)
    \/ \E t \in Callers : ReadMoving(t)
    \/ \E t \in Callers : ReadThingState(t)

Spec == Init /\ [][Next]_vars

\* a step of caller t inside one of its actions, the acquisitions included
ActionStep(t) ==
    \/ MoveRelLock(t)
    \/ MoveRelSetMoving(t)
    \/ MoveRelCall(t)
    \/ DriverMoveOk(t)
    \/ DriverMoveFail(t)
    \/ MoveRelClear(t)
    \/ MoveRelReadOk(t)
    \/ MoveRelReadFail(t)
    \/ MoveRelUnlock(t)
    \/ MoveAbsLock(t)
    \/ MoveAbsReadOk(t)
    \/ MoveAbsReadFail(t)
    \/ MoveAbsDisplacement(t)
    \/ MoveAbsDisplacementFail(t)

\* a thread that can run does run, a driver call returns or raises, a thread
\* waiting for the RLock gets it if it is free again and again, and __exit__
\* closes the connection once it has the lock
Fairness ==
    /\ WF_vars(ExitClose)
    /\ \A t \in Callers :
          /\ WF_vars(ActionStep(t))
          /\ SF_vars(MoveRelLock(t) \/ MoveAbsLock(t))

FairSpec == Spec /\ Fairness

----------------------------------------------------------------------------
(* Properties *)

\* the places of a caller at which it is inside a `with self.sangaboard()` block
Holding == {"mr_set", "mr_call", "mr_driver", "mr_clear", "mr_read", "mr_unlock",
            "ma_read", "ma_disp"}

\* caller t is inside a `with self.sangaboard()` block of its action
InBlock(t) == pc[t] \in Holding \/ (op[t] = "move_absolute" /\ pc[t] = "mr_lock")

\* the coordinate the cache holds for axis i agrees with the board
CacheCurrent ==
    /\ DOMAIN position = AxisKeys
    /\ \A i \in 1..Len(axis_names) : position[axis_names[i]] = hw[i]

\* C1: with concurrent callers of move_relative and move_absolute, at most one
\* caller is inside the driver's sb.move_rel call in any reachable state, and
\* the caller inside it is the owner of the lock.
C1_OneMoveInFlight ==
    /\ Cardinality({t \in Callers : pc[t] = "mr_driver"}) <= 1
    /\ \A t \in Callers : pc[t] = "mr_driver" => sangaboard_lock.owner = t

\* a caller is inside sb.move_rel while another caller waits for the lock
C1_Witness ==
    \E t, u \in Callers :
        /\ t # u
        /\ pc[t] = "mr_driver"
        /\ pc[u] \in {"mr_lock", "ma_lock"}

\* C2: moving is false after every exit from a move, the error path included:
\* in every reachable state where no caller holds the lock, moving is false.
C2_MovingFalseWhenUnlocked == sangaboard_lock.count = 0 => ~moving

\* C3: the lock is released on every exit path of move_relative and
\* move_absolute: a caller that is not inside an action holds the lock zero
\* times, and when no thread is inside a `with` block the lock is free, so
\* another caller can acquire it.
C3_LockReleasedOnExit ==
    /\ \A t \in Callers : ~InBlock(t) => sangaboard_lock.owner # t
    /\ (hostpc # "ex_close" /\ \A t \in Callers : ~InBlock(t))
            => sangaboard_lock = FreeLock

\* a move_absolute has ended with an error of the driver and another caller
\* has since taken the lock
C3_Witness ==
    \E t, u \in Callers :
        /\ op[t] = "move_absolute"
        /\ pc[t] = "done"
        /\ result[t] \in {"MotionError", "ReadError"}
        /\ sangaboard_lock.owner = u

\* C4: abort_move called while moving is false ends with the 409 conflict
\* error, issues no write to the transport and leaves moving, position, the
\* lock, the board and the connection as they were.
C4_AbortIdleConflict ==
    [][\A t \in Callers :
          (pc[t] = "ab_check" /\ ~moving /\ pc'[t] # "ab_check")
              => /\ pc'[t] = "done"
                 /\ result'[t] = "Conflict409"
                 /\ writes' = writes
                 /\ writes[t] = 0
                 /\ UNCHANGED <<moving, position, sangaboard_lock, hw, conn>>]_vars

\* an abort_move has ended with the conflict error
C4_Witness ==
    \E t \in Callers :
        /\ op[t] = "abort_move"
        /\ pc[t] = "done"
        /\ result[t] = "Conflict409"
        /\ writes[t] = 0

\* C5: abort_move called while moving is true issues exactly one raw write and
\* never holds the lock: each of its steps can be taken whoever holds the lock,
\* so it completes while another thread is inside the driver's move call.
C5_AbortBypassesLock ==
    \A t \in Callers :
        /\ op[t] = "abort_move" => sangaboard_lock.owner # t
        /\ pc[t] = "ab_check" => writes[t] = 0 /\ ENABLED AbortCheck(t)
        /\ pc[t] = "ab_write" => writes[t] = 0 /\ ENABLED AbortWrite(t)
        /\ (op[t] = "abort_move" /\ pc[t] = "done" /\ result[t] # "Conflict409")
              => writes[t] = 1

\* an abort_move has written its stop while another caller is inside sb.move_rel
C5_Witness ==
    \E t, u \in Callers :
        /\ pc[u] = "mr_driver"
        /\ sangaboard_lock.owner = u
        /\ op[t] = "abort_move"
        /\ pc[t] = "done"
        /\ result[t] = "ok"
        /\ writes[t] = 1

\* C6: for every subset of the axes given to move_absolute as targets, when
\* the call ends without an error of the driver the cached position of every
\* axis in targets is its target.
C6_AbsoluteReachesTargets ==
    [][\A t \in Callers :
          ( /\ op[t] = "move_absolute"
            /\ pc[t] # "done" /\ pc'[t] = "done"
            /\ DOMAIN kwargs[t] \subseteq AxisKeys
            /\ result'[t] \notin {"MotionError", "ReadError"} )
              => \A k \in DOMAIN kwargs[t] :
                     k \in DOMAIN position' /\ position'[k] = kwargs[t][k]]_vars

\* C7: the vector move_relative hands to the driver is in the order x, y, z,
\* carries the given delta for each axis supplied and 0 for each axis omitted,
\* and when the driver has made the move the board has moved by the delta on
\* each axis supplied and not at all on each axis omitted.
C7_RelativeVector ==
    [][\A t \in Callers : op[t] = "move_relative" =>
          /\ (pc[t] = "mr_call" /\ pc'[t] = "mr_driver") =>
                /\ Len(driverArg'[t]) = 3
                /\ \A i \in 1..3 :
                      driverArg'[t][i] =
                          IF << <<"x">>, <<"y">>, <<"z">> >>[i] \in DOMAIN kwargs'[t]
                          THEN kwargs'[t][<< <<"x">>, <<"y">>, <<"z">> >>[i]]
                          ELSE 0
          /\ (pc[t] = "mr_driver" /\ pc'[t] = "mr_clear") =>
                \A i \in 1..3 :
                    hw'[i] =
                        IF << <<"x">>, <<"y">>, <<"z">> >>[i] \in DOMAIN kwargs[t]
                        THEN hw[i] + kwargs[t][<< <<"x">>, <<"y">>, <<"z">> >>[i]]
                        ELSE hw[i]]_vars

\* the driver has made a move_relative that names the x axis alone
C7_Witness ==
    \E t \in Callers :
        /\ op[t] = "move_relative"
        /\ pc[t] = "mr_clear"
        /\ DOMAIN kwargs[t] = {<<"x">>}

\* C8: move_absolute leaves untouched every axis absent from targets: the
\* displacement it commands to the driver is 0 for each such axis, and no step
\* of the call changes the board's coordinate on such an axis.
C8_AbsoluteFrame ==
    [][\A t \in Callers : op[t] = "move_absolute" =>
          \A i \in 1..Len(axis_names) : axis_names[i] \notin DOMAIN kwargs[t] =>
              /\ (pc[t] = "mr_call" /\ pc'[t] = "mr_driver") => driverArg'[t][i] = 0
              /\ pc'[t] # pc[t] => hw'[i] = hw[i]]_vars

\* the driver has made the move a move_absolute commanded
C8_Witness ==
    \E t \in Callers :
        /\ op[t] = "move_absolute"
        /\ pc[t] = "mr_clear"
        /\ \E i \in 1..Len(axis_names) : axis_names[i] \notin DOMAIN kwargs[t]

\* C9: move_absolute holds the lock from its position resync to the end of its
\* relative move: between the read of the board and the driver's move call no
\* other caller is inside a locked block, the host is not closing, and the
\* position the deltas are computed from is still the board's.
C9_AbsoluteHoldsLock ==
    \A t \in Callers :
        (op[t] = "move_absolute" /\ pc[t] \in {"ma_disp", "mr_lock", "mr_set", "mr_call", "mr_driver"})
            => /\ sangaboard_lock.owner = t
               /\ sangaboard_lock.count >= 1
               /\ \A u \in Callers \ {t} : ~InBlock(u)
               /\ hostpc # "ex_close"
               /\ CacheCurrent

\* a move_absolute is inside the driver's move call while another caller waits
C9_Witness ==
    \E t, u \in Callers :
        /\ t # u
        /\ op[t] = "move_absolute"
        /\ pc[t] = "mr_driver"
        /\ pc[u] \in {"mr_lock", "ma_lock"}

\* C10: when a move that succeeded is about to release the lock, the cached
\* position is the position the driver reports and moving is false.
C10_ResyncBeforeRelease ==
    \A t \in Callers :
        pc[t] = "mr_unlock" =>
            /\ ~moving
            /\ sangaboard_lock.owner = t
            /\ CacheCurrent

\* move_relative(x=1) from {x:0, y:0, z:0} is about to release the lock with
\* the cache at {x:1, y:0, z:0}
C10_Witness ==
    \E t \in Callers :
        /\ op[t] = "move_relative"
        /\ pc[t] = "mr_unlock"
        /\ kwargs[t] = [k \in {<<"x">>} |-> 1]
        /\ position = [k \in AxisKeys |-> IF k = <<"x">> THEN 1 ELSE 0]

\* C11: once stop() has completed and the connection is closed, every further
\* operation fails with NotReadyError and issues no command: no caller enters
\* the driver's move call or a position read, no raw write is issued, and a
\* call that ends, ends with NotReadyError.
C11_NotReadyAfterStop ==
    [][\A t \in Callers : conn = "closed" =>
          /\ ~(pc[t] # "mr_driver" /\ pc'[t] = "mr_driver")
          /\ ~(pc[t] # "mr_read" /\ pc'[t] = "mr_read")
          /\ ~(pc[t] # "ma_read" /\ pc'[t] = "ma_read")
          /\ writes'[t] <= writes[t]
          /\ (pc[t] # "done" /\ pc'[t] = "done") => result'[t] = "NotReadyError"]_vars

\* a step of caller t inside its locked block
HolderStep(t) ==
    \/ MoveRelLock(t) \/ MoveRelSetMoving(t) \/ MoveRelCall(t)
    \/ DriverMoveOk(t) \/ DriverMoveFail(t) \/ MoveRelClear(t)
    \/ MoveRelReadOk(t) \/ MoveRelReadFail(t) \/ MoveRelUnlock(t)
    \/ MoveAbsReadOk(t) \/ MoveAbsReadFail(t)
    \/ MoveAbsDisplacement(t) \/ MoveAbsDisplacementFail(t)

\* C12: stop() takes the same lock as the moves before closing: while the host
\* is at sb.close() it owns the lock and no caller is inside a locked block (so
\* none is inside the driver's move call or a position read); a stop waits
\* exactly as long as the lock is held, the caller holding it can always go on
\* to release it, and the close itself never blocks.
C12_StopUsesLock ==
    /\ hostpc = "ex_close" =>
          /\ sangaboard_lock = [owner |-> Host, count |-> 1]
          /\ \A t \in Callers : ~InBlock(t)
          /\ ENABLED ExitClose
    /\ hostpc = "running" => (ENABLED ExitLock <=> sangaboard_lock.count = 0)
    /\ \A t \in Callers : InBlock(t) => ENABLED HolderStep(t)

\* the host is at sb.close() after a move was made, while a caller waits for
\* the lock
C12_Witness ==
    /\ hostpc = "ex_close"
    /\ \E t, u \in Callers :
          /\ pc[t] \in {"mr_lock", "ma_lock"}
          /\ op[u] = "move_relative" /\ pc[u] = "done" /\ result[u] = "ok"

\* C13: reading position, moving or axis_names takes no lock and touches no
\* hardware: a read by an idle caller is possible whoever holds the lock,
\* also while another caller is inside the driver's move call, and the step
\* changes neither the lock, the board, the transport nor the cache; a read
\* of position returns the cached value, a read of moving the flag.
C13_ReadsNeverBlock ==
    [][\A t \in Callers :
          /\ (Serving /\ pc[t] = "idle") =>
                /\ ENABLED ReadPosition(t)
                /\ ENABLED ReadMoving(t)
                /\ ENABLED ReadAxisNames(t)
          /\ (pc[t] = "idle" /\ pc'[t] = "done") =>
                /\ UNCHANGED <<sangaboard_lock, hw, writes, conn, position, moving>>
                /\ op'[t] = "position" => returned'[t].value = position
                /\ op'[t] = "moving" => returned'[t].value = moving
                /\ op'[t] = "axis_names" => returned'[t].value = axis_names]_vars

\* a caller has read a stale position while the other is inside sb.move_rel
C13_Witness ==
    \E t, u \in Callers :
        /\ pc[u] = "mr_driver" /\ sangaboard_lock.owner = u
        /\ pc[t] = "done" /\ returned[t].prop = "position"
        /\ returned[t].value = position
        /\ DOMAIN position = AxisKeys /\ ~CacheCurrent

\* C14: once the Thing has been started the keys of the cached position are
\* exactly the axis names x, y, z, and in the state __enter__ leaves behind
\* the cache holds what the board reports.
C14_CacheAfterStart ==
    [][/\ Serving' => DOMAIN position' = AxisKeys
       /\ (hostpc = "constructed" /\ hostpc' = "running") => CacheCurrent']_vars

\* just started, nothing called yet, the board away from the origin
C14_Witness ==
    /\ hostpc = "running"
    /\ \A t \in Callers : pc[t] = "idle" /\ op[t] = None
    /\ CacheCurrent
    /\ \E i \in 1..Len(axis_names) : hw[i] # 0

\* a step of caller t that assigns self.position or self.moving
WriteStep(t) ==
    \/ MoveRelSetMoving(t)
    \/ MoveRelClear(t)
    \/ MoveRelReadOk(t)
    \/ MoveAbsReadOk(t)

\* C15: every assignment to the cached position and to the moving flag is
\* made by a thread that owns the lock at that moment (__enter__ makes its
\* one assignment inside update_position's own locked block), and no step of
\* abort_move changes either of them.
C15_WritesUnderLock ==
    [][/\ \A t \in Callers :
             /\ WriteStep(t) => sangaboard_lock.owner = t /\ sangaboard_lock.count > 0
             /\ (pc[t] \in {"ab_check", "ab_write"} /\ pc'[t] # pc[t]) =>
                   UNCHANGED <<position, moving>>
       /\ (position' # position \/ moving' # moving) =>
             \/ Enter
             \/ \E t \in Callers : WriteStep(t)]_vars

\* an abort has written its stop while the owner of the lock set moving,
\* cleared it and stored the position
C15_Witness ==
    \E t, u \in Callers :
        /\ pc[u] = "mr_unlock" /\ sangaboard_lock.owner = u
        /\ ~moving /\ CacheCurrent
        /\ op[t] = "abort_move" /\ pc[t] = "done" /\ result[t] = "ok"
        /\ writes[t] = 1

\* C16: when sb.move_rel raises inside move_relative the action ends there:
\* update_position is not called and nothing is undone, the cached position
\* after the failed call is the cached position before it, and the cache
\* changes again only when an update_position succeeds.
C16_FailedMoveKeepsCache ==
    [][/\ \A t \in Callers :
             (pc[t] = "mr_driver" /\ pc'[t] \notin {"mr_driver", "mr_clear"}) =>
                /\ position' = position
                /\ pc'[t] = "done" /\ result'[t] = "MotionError"
       /\ position' # position =>
             \/ Enter
             \/ \E t \in Callers : MoveRelReadOk(t) \/ MoveAbsReadOk(t)]_vars

\* a move_relative has failed in the driver with the board moved all the
\* same: the cache is left behind the board
C16_Witness ==
    \E t \in Callers :
        /\ op[t] = "move_relative" /\ pc[t] = "done" /\ result[t] = "MotionError"
        /\ DOMAIN position = AxisKeys /\ ~CacheCurrent
        /\ \A u \in Callers \ {t} : pc[u] = "idle" /\ op[u] = None

\* C17: in every state in which a caller is inside the driver's sb.move_rel
\* call the moving flag is true, and a read of moving made in such a state
\* returns true.
C17_MovingDuringDriverCall ==
    [][/\ (\E u \in Callers : pc[u] = "mr_driver") => moving
       /\ (\E u \in Callers : pc'[u] = "mr_driver") => moving'
       /\ \A t \in Callers :
             (/\ pc[t] = "idle" /\ pc'[t] = "done" /\ op'[t] = "moving"
              /\ \E u \in Callers : pc[u] = "mr_driver") =>
                returned'[t].value = TRUE]_vars

\* a caller is inside sb.move_rel with a displacement on every axis and the
\* other has read moving == true
C17_Witness ==
    \E t, u \in Callers :
        /\ pc[u] = "mr_driver" /\ driverArg[u] = <<1, 1, 1>>
        /\ pc[t] = "done" /\ returned[t] = [prop |-> "moving", value |-> TRUE]

\* C18: with a fair lock and scheduler and a driver whose calls return, every
\* call of move_relative or move_absolute gets the lock, makes its move and
\* returns: it ends with its move made, or with the error the driver raised.
C18_MovesComplete ==
    \A t \in Callers :
        (pc[t] \in {"mr_lock", "ma_lock"})
            ~> (pc[t] = "done" /\ result[t] \in {"ok", "MotionError", "ReadError"})

\* every call of move_relative or move_absolute returns
C18_MovesReturn ==
    \A t \in Callers : (pc[t] \in {"mr_lock", "ma_lock"}) ~> (pc[t] = "done")

\* C19 (as stated): every stop written by abort_move reaches the transport
\* while some caller is inside the driver's sb.move_rel call.
C19_StopDuringDriverCall ==
    [][\A t \in Callers :
          writes'[t] > writes[t] => \E u \in Callers : pc[u] = "mr_driver"]_vars

\* C19 (amended): every stop written by abort_move follows a test that read
\* moving == true: the write is entered only from that test, and an
\* abort_move writes once.  Where the move is by the time of the write is
\* not constrained.
C19_StopAfterMovingRead ==
    [][\A t \in Callers :
          /\ (pc[t] # "ab_write" /\ pc'[t] = "ab_write") =>
                pc[t] = "ab_check" /\ moving
          /\ writes'[t] > writes[t] =>
                /\ op[t] = "abort_move" /\ pc[t] = "ab_write"
                /\ writes[t] = 0 /\ writes'[t] = 1]_vars

\* the stop has been written, and the move it was meant for has completed
\* and cleared the flag
C19_Witness ==
    \E t, u \in Callers :
        /\ op[t] = "abort_move" /\ pc[t] = "done" /\ result[t] = "ok"
        /\ writes[t] = 1
        /\ op[u] = "move_relative" /\ pc[u] = "done" /\ result[u] = "ok"
        /\ ~moving

====
